---- MODULE Spec2Model ----
(***************************************************************************)
(* The Wasmerc20 ledger of src/lib.rs as a state machine: one action per   *)
(* ink! message, each the whole handler including its call of _transfer.   *)
(*                                                                         *)
(* Balance is an unsigned integer of fixed width (u128 in the source,      *)
(* Bits wide here).  The source uses the plain operators +, - and +=, -=,  *)
(* whose result on overflow depends on the build profile: with overflow    *)
(* checks the operation panics, the message traps and the host reverts     *)
(* the call; without them the result wraps modulo 2^Bits.  The profile is  *)
(* not fixed by the source, so it is a choice made once, at construction   *)
(* (overflow_checks).                                                      *)
(***************************************************************************)
EXTENDS Integers, Sequences, FiniteSets, TLC

\* ------------------------------------------------------------ bounds
\* Width of Balance in bits (128 in the source).
Bits == 2

Modulus == 2 ^ Bits
MaxBalance == Modulus - 1
Balance == 0 .. MaxBalance

AccountId == {"A", "B", "C"}
None == "None"

\* The account that constructs the ledger, the accounts that call approve
\* and the spenders they approve.
Deployers == {"A"}
Approvers == {"A", "B"}
Spenders == {"B"}

VARIABLES total_supply, balances, approval, owner,
          overflow_checks, call, emitted,
          booked, issued, unspent

vars == <<total_supply, balances, approval, owner,
          overflow_checks, call, emitted,
          booked, issued, unspent>>

\* ------------------------------------------------------------ Mapping
\* ink_storage::Mapping read only through get(..).unwrap_or_default():
\* a key never inserted reads as 0, so a Mapping is a total function that
\* starts at 0 everywhere.
BalancesDefault == [who \in AccountId |-> 0]
ApprovalDefault == [key \in AccountId \X AccountId |-> 0]

MappingInsert(m, k, v) == [m EXCEPT ![k] = v]

\* ------------------------------------------------------------ arithmetic
\* a + b and a - b on the fixed-width unsigned type: whether the result
\* leaves the range, and the value stored when the operation does not panic.
AddOverflows(a, b) == a + b > MaxBalance
SubOverflows(a, b) == a < b
WrappingAdd(a, b) == (a + b) % Modulus
WrappingSub(a, b) == (a - b) % Modulus

\* ------------------------------------------------------------ events
TransferEvent(from, to, value) ==
    [kind |-> "Transfer", from |-> from, to |-> to, value |-> value]

ApprovalEvent(o, spender, value) ==
    [kind |-> "Approval", owner |-> o, spender |-> spender, value |-> value]

\* ------------------------------------------------------------ history
\* What the notifications emitted since construction add up to:
\* booked[X] is the sum of the values of the Transfers with to = Some(X)
\* minus the sum of those with from = Some(X), issued the sum of those with
\* from = None minus the sum of those with to = None.  The sums are followed
\* exactly as long as all of them are at most the largest Balance; once one
\* is above it, all are Beyond and stay so: a sum above the range and the
\* stored amount differ by a multiple of 2^Bits that no later message makes
\* smaller (debits need a sufficient stored amount and lower both alike,
\* credits raise the sum by at least as much as the stored amount).
Beyond == MaxBalance + 1

Tally(sum, delta) ==
    IF sum = Beyond \/ sum + delta > MaxBalance THEN Beyond ELSE sum + delta

BookEvent(b, e) ==
    IF e.kind # "Transfer" THEN b
    ELSE [X \in AccountId |->
            Tally(b[X], (IF e.to = X THEN e.value ELSE 0)
                         - (IF e.from = X THEN e.value ELSE 0))]

IssueEvent(n, e) ==
    IF e.kind # "Transfer" THEN n
    ELSE Tally(n, (IF e.from = None THEN e.value ELSE 0)
                   - (IF e.to = None THEN e.value ELSE 0))

RECURSIVE BookAll(_, _)
BookAll(b, events) ==
    IF events = <<>> THEN b
    ELSE BookAll(BookEvent(b, Head(events)), Tail(events))

RECURSIVE IssueAll(_, _)
IssueAll(n, events) ==
    IF events = <<>> THEN n
    ELSE IssueAll(IssueEvent(n, Head(events)), Tail(events))

HistoryLost(b, n) == n = Beyond \/ \E X \in AccountId : b[X] = Beyond

Booked(b, n, events) ==
    LET nb == BookAll(b, events)
        nn == IssueAll(n, events)
    IN  IF HistoryLost(nb, nn) THEN [X \in AccountId |-> Beyond] ELSE nb

Issued(b, n, events) ==
    LET nb == BookAll(b, events)
        nn == IssueAll(n, events)
    IN  IF HistoryLost(nb, nn) THEN Beyond ELSE nn

\* unspent[(O, S)] is the value of O's most recent approve(S, a) (0 if
\* there was none) minus the values of the successful transfer_from(O, ..)
\* calls S has made since.
Spend(u, op, caller, from, to, value, res) ==
    IF res # "Ok" THEN u
    ELSE IF op = "approve" THEN [u EXCEPT ![<<caller, to>>] = value]
    ELSE IF op = "transfer_from"
    THEN [u EXCEPT ![<<from, caller>>] = @ - value]
    ELSE u

\* ------------------------------------------------------------ the ledger
\* The contract's storage as the handlers see it through self.  panicked
\* records that an arithmetic operation left the range in a build with
\* overflow checks; events are those emitted so far by the call.
Storage ==
    [total_supply |-> total_supply, balances |-> balances,
     approval |-> approval, owner |-> owner]

Self ==
    [total_supply |-> total_supply, balances |-> balances,
     approval |-> approval, owner |-> owner,
     panicked |-> FALSE, events |-> <<>>]

balance_of(self, who) == self.balances[who]

approval_of(self, o, spender) == self.approval[<<o, spender>>]

\* The read-only messages owner() and total_supply().
owner_of(self) == self.owner

total_supply_of(self) == self.total_supply

\* What a handler hands back: the storage it leaves and its return value.
Return(self, res) == [st |-> self, res |-> res, val |-> None]

\* What a read-only message hands back: the value it read.
Answer(self, val) == [st |-> self, res |-> "Ok", val |-> val]

\* new without the credit of the constructing caller.
new_credits_nobody(sender, initial_supply) ==
    [total_supply |-> initial_supply,
     balances |-> BalancesDefault,
     approval |-> ApprovalDefault,
     owner |-> sender,
     events |-> <<TransferEvent(None, sender, initial_supply)>>]

\* new (constructor)
new(sender, initial_supply) ==
    [total_supply |-> initial_supply,
     balances |-> MappingInsert(BalancesDefault, sender, initial_supply),
     approval |-> ApprovalDefault,
     owner |-> sender,
     events |-> <<TransferEvent(None, sender, initial_supply)>>]

\* _transfer emitting the Transfer with source and destination exchanged.
_transfer_swaps_event(self, from, to, value) ==
    LET debited ==
            IF from # None
            THEN LET from_balance == balance_of(self, from)
                 IN  [self EXCEPT
                        !.balances = MappingInsert(@, from,
                                         WrappingSub(from_balance, value)),
                        !.panicked = @ \/ (overflow_checks
                                     /\ SubOverflows(from_balance, value))]
            ELSE self
        credited ==
            IF to # None
            THEN LET to_balance == balance_of(debited, to)
                 IN  [debited EXCEPT
                        !.balances = MappingInsert(@, to,
                                         WrappingAdd(to_balance, value)),
                        !.panicked = @ \/ (overflow_checks
                                     /\ AddOverflows(to_balance, value))]
            ELSE debited
    IN  Return([credited EXCEPT
                  !.events = Append(@, TransferEvent(to, from, value))],
               "Ok")

\* _transfer reading the destination's balance before the debit.
_transfer_reads_first(self, from, to, value) ==
    LET debited ==
            IF from # None
            THEN LET from_balance == balance_of(self, from)
                 IN  [self EXCEPT
                        !.balances = MappingInsert(@, from,
                                         WrappingSub(from_balance, value)),
                        !.panicked = @ \/ (overflow_checks
                                     /\ SubOverflows(from_balance, value))]
            ELSE self
        credited ==
            IF to # None
            THEN LET to_balance == balance_of(self, to)
                 IN  [debited EXCEPT
                        !.balances = MappingInsert(@, to,
                                         WrappingAdd(to_balance, value)),
                        !.panicked = @ \/ (overflow_checks
                                     /\ AddOverflows(to_balance, value))]
            ELSE debited
    IN  Return([credited EXCEPT
                  !.events = Append(@, TransferEvent(from, to, value))],
               "Ok")

\* _transfer: debit the source if present, credit the destination if
\* present (reading its balance after the debit), emit Transfer.
_transfer(self, from, to, value) ==
    LET debited ==
            IF from # None
            THEN LET from_balance == balance_of(self, from)
                 IN  [self EXCEPT
                        !.balances = MappingInsert(@, from,
                                         WrappingSub(from_balance, value)),
                        !.panicked = @ \/ (overflow_checks
                                     /\ SubOverflows(from_balance, value))]
            ELSE self
        credited ==
            IF to # None
            THEN LET to_balance == balance_of(debited, to)
                 IN  [debited EXCEPT
                        !.balances = MappingInsert(@, to,
                                         WrappingAdd(to_balance, value)),
                        !.panicked = @ \/ (overflow_checks
                                     /\ AddOverflows(to_balance, value))]
            ELSE debited
    IN  Return([credited EXCEPT
                  !.events = Append(@, TransferEvent(from, to, value))],
               "Ok")

\* transfer
transfer(self, caller, to, value) ==
    LET from == caller
        from_balance == balance_of(self, from)
    IN  IF from_balance < value
        THEN Return(self, "InsufficientBalance")
        ELSE _transfer(self, from, to, value)

\* transfer_from with the allowance written before the balance is checked.
transfer_from_spends_first(self, caller, from, to, value) ==
    LET allowed == approval_of(self, from, caller)
        from_balance == balance_of(self, from)
        spent == [self EXCEPT
                    !.approval = MappingInsert(@, <<from, caller>>,
                                     WrappingSub(allowed, value)),
                    !.panicked = @ \/ (overflow_checks
                                       /\ SubOverflows(allowed, value))]
    IN  IF allowed < value
        THEN Return(self, "InsufficientApproval")
        ELSE IF from_balance < value
        THEN Return(spent, "InsufficientBalance")
        ELSE _transfer(spent, from, to, value)

\* transfer_from with the balance checked before the allowance.
transfer_from_balance_first(self, caller, from, to, value) ==
    LET allowed == approval_of(self, from, caller)
        from_balance == balance_of(self, from)
    IN  IF from_balance < value
        THEN Return(self, "InsufficientBalance")
        ELSE IF allowed < value
        THEN Return(self, "InsufficientApproval")
        ELSE _transfer(
                 [self EXCEPT
                    !.approval = MappingInsert(@, <<from, caller>>,
                                     WrappingSub(allowed, value)),
                    !.panicked = @ \/ (overflow_checks
                                       /\ SubOverflows(allowed, value))],
                 from, to, value)

\* transfer_from without the decrement of the allowance.
transfer_from_keeps_allowance(self, caller, from, to, value) ==
    LET allowed == approval_of(self, from, caller)
        from_balance == balance_of(self, from)
    IN  IF allowed < value
        THEN Return(self, "InsufficientApproval")
        ELSE IF from_balance < value
        THEN Return(self, "InsufficientBalance")
        ELSE _transfer(self, from, to, value)

\* transfer_from
transfer_from(self, caller, from, to, value) ==
    LET allowed == approval_of(self, from, caller)
        from_balance == balance_of(self, from)
    IN  IF allowed < value
        THEN Return(self, "InsufficientApproval")
        ELSE IF from_balance < value
        THEN Return(self, "InsufficientBalance")
        ELSE _transfer(
                 [self EXCEPT
                    !.approval = MappingInsert(@, <<from, caller>>,
                                     WrappingSub(allowed, value)),
                    !.panicked = @ \/ (overflow_checks
                                       /\ SubOverflows(allowed, value))],
                 from, to, value)

\* approve storing its caller in the owner field as well.
approve_sets_owner(self, caller, to, value) ==
    Return([self EXCEPT
              !.owner = caller,
              !.approval = MappingInsert(@, <<caller, to>>, value),
              !.events = Append(@, ApprovalEvent(caller, to, value))],
           "Ok")

\* approve adding value to the allowance already stored.
approve_adds(self, caller, to, value) ==
    Return([self EXCEPT
              !.approval = MappingInsert(@, <<caller, to>>,
                               WrappingAdd(approval_of(self, caller, to),
                                           value)),
              !.events = Append(@, ApprovalEvent(caller, to, value))],
           "Ok")

\* approve refusing a value above the caller's balance.
approve_within_balance(self, caller, to, value) ==
    IF balance_of(self, caller) < value
    THEN Return(self, "InsufficientBalance")
    ELSE Return([self EXCEPT
                   !.approval = MappingInsert(@, <<caller, to>>, value),
                   !.events = Append(@, ApprovalEvent(caller, to, value))],
                "Ok")

\* approve
approve(self, caller, to, value) ==
    Return([self EXCEPT
              !.approval = MappingInsert(@, <<caller, to>>, value),
              !.events = Append(@, ApprovalEvent(caller, to, value))],
           "Ok")

\* mint without the increment of total_supply.
mint_keeps_supply(self, caller, value) ==
    IF caller # self.owner
    THEN Return(self, "IllegalManager")
    ELSE _transfer(self, None, caller, value)

\* mint
mint(self, caller, value) ==
    IF caller # self.owner
    THEN Return(self, "IllegalManager")
    ELSE _transfer(
             [self EXCEPT
                !.total_supply = WrappingAdd(@, value),
                !.panicked = @ \/ (overflow_checks
                                   /\ AddOverflows(self.total_supply, value))],
             None, caller, value)

\* burn
burn(self, caller, value) ==
    LET caller_balance == balance_of(self, caller)
    IN  IF caller # self.owner
        THEN Return(self, "IllegalManager")
        ELSE IF caller_balance < value
        THEN Return(self, "InsufficientBalance")
        ELSE _transfer(
                 [self EXCEPT
                    !.total_supply = WrappingSub(@, value),
                    !.panicked = @ \/ (overflow_checks
                                   /\ SubOverflows(self.total_supply, value))],
                 caller, None, value)

\* ------------------------------------------------------------ the machine
\* The host runs one message at a time to completion.  call is the
\* message that has just run, with its arguments, its return value and the
\* storage it started from (answer is the value a read-only message read),
\* until the host hands the result back (Deliver); emitted holds the events
\* of that message, which are added to the history as they are kept.
Call(op, caller, from, to, value, res, val, pre) ==
    [op |-> op, caller |-> caller, from |-> from, to |-> to,
     value |-> value, result |-> res, answer |-> val, pre |-> pre]

NoCall == Call("none", None, None, None, 0, "none", None, <<>>)

\* The host's end of a message: a panic traps and the call's writes and
\* events are discarded; otherwise the storage and the events are kept.
Dispatch(op, caller, from, to, value, out) ==
    /\ call.op = "none"
    /\ IF out.st.panicked
       THEN /\ UNCHANGED <<total_supply, balances, approval, owner>>
            /\ UNCHANGED <<booked, issued, unspent>>
            /\ emitted' = <<>>
            /\ call' = Call(op, caller, from, to, value, "Panic", None,
                            Storage)
       ELSE /\ total_supply' = out.st.total_supply
            /\ balances' = out.st.balances
            /\ approval' = out.st.approval
            /\ owner' = out.st.owner
            /\ emitted' = out.st.events
            /\ booked' = Booked(booked, issued, out.st.events)
            /\ issued' = Issued(booked, issued, out.st.events)
            /\ unspent' = Spend(unspent, op, caller, from, to, value,
                                out.res)
            /\ call' = Call(op, caller, from, to, value, out.res,
                            out.val, Storage)
    /\ UNCHANGED overflow_checks

Init ==
    \E sender \in Deployers, initial_supply \in Balance :
        LET c == new(sender, initial_supply)
        IN  /\ total_supply = c.total_supply
            /\ balances = c.balances
            /\ approval = c.approval
            /\ owner = c.owner
            /\ emitted = c.events
            /\ booked = Booked(BalancesDefault, 0, c.events)
            /\ issued = Issued(BalancesDefault, 0, c.events)
            /\ unspent = ApprovalDefault
            /\ call = Call("new", sender, None, None, initial_supply,
                           "Ok", None, <<>>)
            /\ overflow_checks \in BOOLEAN

Transfer ==
    \E caller \in AccountId, to \in AccountId, value \in Balance :
        Dispatch("transfer", caller, caller, to, value,
                 transfer(Self, caller, to, value))

TransferFrom ==
    \E caller \in AccountId, from \in AccountId, to \in AccountId,
       value \in Balance :
        Dispatch("transfer_from", caller, from, to, value,
                 transfer_from(Self, caller, from, to, value))

Approve ==
    \E caller \in Approvers, to \in Spenders, value \in Balance :
        Dispatch("approve", caller, None, to, value,
                 approve(Self, caller, to, value))

Mint ==
    \E caller \in AccountId, value \in Balance :
        Dispatch("mint", caller, None, None, value,
                 mint(Self, caller, value))

Burn ==
    \E caller \in AccountId, value \in Balance :
        Dispatch("burn", caller, None, None, value,
                 burn(Self, caller, value))

\* owner(), total_supply(), balance_of(who), approval(owner, spender): the
\* value read is the return value; nothing is written or emitted.
Query ==
    \/ Dispatch("owner", None, None, None, 0, Answer(Self, owner_of(Self)))
    \/ Dispatch("total_supply", None, None, None, 0,
                Answer(Self, total_supply_of(Self)))
    \/ \E who \in AccountId :
          Dispatch("balance_of", None, None, who, 0,
                   Answer(Self, balance_of(Self, who)))
    \/ \E o \in AccountId, spender \in AccountId :
          Dispatch("approval", None, o, spender, 0,
                   Answer(Self, approval_of(Self, o, spender)))

\* The host hands the result back to the caller; the next message may run.
Deliver ==
    /\ call.op # "none"
    /\ call' = NoCall
    /\ emitted' = <<>>
    /\ UNCHANGED <<total_supply, balances, approval, owner, overflow_checks,
                   booked, issued, unspent>>

Next ==
    Transfer \/ TransferFrom \/ Approve \/ Mint \/ Burn \/ Query \/ Deliver

Spec == Init /\ [][Next]_vars

\* ------------------------------------------------------------ claims
RECURSIVE SumOver(_, _)
SumOver(f, S) ==
    IF S = {} THEN 0
    ELSE LET x == CHOOSE y \in S : TRUE
         IN  f[x] + SumOver(f, S \ {x})

Errors == {"InsufficientBalance", "InsufficientApproval", "IllegalManager"}

\* The storage the message that has just run started from.
Pre == call.pre

\* The message that has just run got past its early returns.
Applied == call.result \notin Errors

OthersUnchanged(keep) ==
    \A who \in AccountId \ keep : balances[who] = Pre.balances[who]

\* C1: in every reachable state total_supply equals the sum of the
\* balances of all identities.
C1_Conservation == total_supply = SumOver(balances, AccountId)

\* C2: whenever transfer, transfer_from, mint or burn returns an Err,
\* total_supply, every balance, every allowance and owner are the same
\* after the call as before it.
C2_ErrLeavesStateUnchanged ==
    (call.op \in {"transfer", "transfer_from", "mint", "burn"}
        /\ call.result \in Errors)
    => Storage = Pre

\* A transfer_from that failed on the balance check although the spender
\* had a positive allowance and asked for a positive value.
C2_Witness ==
    /\ call.op = "transfer_from"
    /\ call.result = "InsufficientBalance"
    /\ call.value > 0
    /\ approval[<<call.from, call.caller>>] > 0

\* C3: every subtraction of the ledger runs with a minuend >= value: the
\* source balance in _transfer (from transfer, transfer_from and burn), the
\* allowance in transfer_from, total_supply in burn.
C3_NoSubtractionBelowZero ==
    /\ (call.op \in {"transfer", "transfer_from"} /\ Applied)
          => Pre.balances[call.from] >= call.value
    /\ (call.op = "transfer_from" /\ Applied)
          => Pre.approval[<<call.from, call.caller>>] >= call.value
    /\ (call.op = "burn" /\ Applied)
          => /\ Pre.total_supply >= call.value
             /\ Pre.balances[call.caller] >= call.value

\* C4 as stated: mint returns Err(IllegalManager) exactly when the caller
\* is not owner; when the caller is owner it returns Ok, increases
\* total_supply and the caller's balance by exactly value and leaves every
\* other balance and every allowance unchanged.
C4_MintAsStated ==
    call.op = "mint" =>
        /\ call.result = "IllegalManager" <=> call.caller # Pre.owner
        /\ call.caller = Pre.owner =>
              /\ call.result = "Ok"
              /\ total_supply = Pre.total_supply + call.value
              /\ balances[call.caller]
                    = Pre.balances[call.caller] + call.value
              /\ OthersUnchanged({call.caller})
              /\ approval = Pre.approval

\* C4 amended: the same, for an owner's mint in which neither
\* total_supply + value nor the owner's balance + value exceeds the
\* largest Balance.
C4_Mint ==
    call.op = "mint" =>
        /\ call.result = "IllegalManager" <=> call.caller # Pre.owner
        /\ (/\ call.caller = Pre.owner
            /\ Pre.total_supply + call.value <= MaxBalance
            /\ Pre.balances[call.caller] + call.value <= MaxBalance) =>
              /\ call.result = "Ok"
              /\ total_supply = Pre.total_supply + call.value
              /\ balances[call.caller]
                    = Pre.balances[call.caller] + call.value
              /\ OthersUnchanged({call.caller})
              /\ approval = Pre.approval

\* The owner has minted a positive value while another account held
\* tokens and an allowance was outstanding.
C4_Witness ==
    /\ call.op = "mint"
    /\ call.result = "Ok"
    /\ call.value > 0
    /\ \E who \in AccountId \ {call.caller} : balances[who] > 0
    /\ \E key \in AccountId \X AccountId : approval[key] > 0

\* C5: burn checks authorization before sufficiency: a caller that is not
\* owner gets Err(IllegalManager) whatever its balance and the value; the
\* owner gets Err(InsufficientBalance) exactly when its balance is less
\* than value; otherwise burn returns Ok and decreases total_supply and the
\* owner's balance each by exactly value, leaving every other balance and
\* every allowance unchanged.
C5_Burn ==
    call.op = "burn" =>
        /\ call.caller # Pre.owner => call.result = "IllegalManager"
        /\ call.caller = Pre.owner =>
              /\ call.result = "InsufficientBalance"
                    <=> Pre.balances[call.caller] < call.value
              /\ Pre.balances[call.caller] >= call.value =>
                    /\ call.result = "Ok"
                    /\ total_supply = Pre.total_supply - call.value
                    /\ balances[call.caller]
                          = Pre.balances[call.caller] - call.value
                    /\ OthersUnchanged({call.caller})
                    /\ approval = Pre.approval

\* C6: total_supply is changed only by successful mint and burn: transfer,
\* transfer_from and approve leave it unchanged whatever they return, a
\* failing mint or burn leaves it unchanged, and a successful mint or burn
\* changes total_supply and the caller's balance by the same delta and no
\* other balance.
C6_SupplyChangesOnlyByMintBurn ==
    /\ call.op \in {"transfer", "transfer_from", "approve"}
          => total_supply = Pre.total_supply
    /\ (call.op \in {"mint", "burn"} /\ call.result # "Ok")
          => total_supply = Pre.total_supply
    /\ (call.op \in {"mint", "burn"} /\ call.result = "Ok")
          => /\ total_supply - Pre.total_supply
                   = balances[call.caller] - Pre.balances[call.caller]
             /\ OthersUnchanged({call.caller})

\* C7: owner is the identity that constructed the ledger, and it is the
\* same before and after every message, whoever calls it and whatever it
\* returns.
C7_OwnerFixed ==
    /\ call.op = "new" => owner = call.caller
    /\ call.op \notin {"new", "none"} => owner = Pre.owner

\* A message sent by an account other than owner has run and returned Ok.
C7_Witness ==
    /\ call.op \in {"transfer", "transfer_from", "approve"}
    /\ call.caller # owner
    /\ call.result = "Ok"

\* C8: transfer returns Err(InsufficientBalance) exactly when the caller's
\* balance is less than value; on success with to # caller it decreases the
\* caller's balance and increases to's balance by exactly value and leaves
\* every other balance, every allowance and total_supply unchanged.
C8_Transfer ==
    call.op = "transfer" =>
        /\ call.result = "InsufficientBalance"
              <=> Pre.balances[call.caller] < call.value
        /\ Pre.balances[call.caller] >= call.value => call.result = "Ok"
        /\ (call.result = "Ok" /\ call.to # call.caller) =>
              /\ balances[call.caller]
                    = Pre.balances[call.caller] - call.value
              /\ balances[call.to] = Pre.balances[call.to] + call.value
              /\ OthersUnchanged({call.caller, call.to})
              /\ approval = Pre.approval
              /\ total_supply = Pre.total_supply

\* C9: transfer_from checks the allowance before the balance, for every
\* caller including caller = from: Err(InsufficientApproval) whenever
\* allowance(from, caller) < value, Err(InsufficientBalance) exactly when
\* the allowance suffices and from's balance is less than value, and Ok
\* otherwise.
C9_TransferFromChecks ==
    call.op = "transfer_from" =>
        LET allowed == Pre.approval[<<call.from, call.caller>>]
            from_balance == Pre.balances[call.from]
        IN  /\ allowed < call.value
                  => call.result = "InsufficientApproval"
            /\ call.result = "InsufficientBalance"
                  <=> (allowed >= call.value /\ from_balance < call.value)
            /\ (allowed >= call.value /\ from_balance >= call.value)
                  => call.result = "Ok"

\* A transfer_from by from itself was refused for its allowance although
\* its balance was too small as well.
C9_Witness ==
    /\ call.op = "transfer_from"
    /\ call.caller = call.from
    /\ call.result = "InsufficientApproval"
    /\ Pre.approval[<<call.from, call.caller>>] > 0
    /\ Pre.balances[call.from] < call.value

\* C10: a successful transfer_from decreases allowances[(from, caller)] by
\* exactly value, decreases from's balance and increases to's balance by
\* value, and leaves every other allowance unchanged; with from = to the
\* balances are unchanged and the allowance is still consumed.
C10_TransferFromEffect ==
    (call.op = "transfer_from" /\ call.result = "Ok") =>
        LET key == <<call.from, call.caller>>
        IN  /\ approval[key] = Pre.approval[key] - call.value
            /\ \A other \in (AccountId \X AccountId) \ {key} :
                  approval[other] = Pre.approval[other]
            /\ call.from # call.to =>
                  /\ balances[call.from]
                        = Pre.balances[call.from] - call.value
                  /\ balances[call.to]
                        = Pre.balances[call.to] + call.value
                  /\ OthersUnchanged({call.from, call.to})
            /\ call.from = call.to => balances = Pre.balances

\* C11: approve always returns Ok, whatever the prior allowance and the
\* caller's balance; afterwards allowance(caller, spender) is exactly value,
\* and every balance, total_supply and every other allowance are unchanged.
C11_Approve ==
    call.op = "approve" =>
        LET key == <<call.caller, call.to>>
        IN  /\ call.result = "Ok"
            /\ approval[key] = call.value
            /\ \A other \in (AccountId \X AccountId) \ {key} :
                  approval[other] = Pre.approval[other]
            /\ balances = Pre.balances
            /\ total_supply = Pre.total_supply

\* An approve of more than the caller's balance over a positive allowance,
\* while another allowance was outstanding.
C11_Witness ==
    /\ call.op = "approve"
    /\ call.value > Pre.balances[call.caller]
    /\ Pre.approval[<<call.caller, call.to>>] > 0
    /\ \E other \in (AccountId \X AccountId) \ {<<call.caller, call.to>>} :
          approval[other] > 0

\* C12: approve is idempotent: once approve(spender, value) by a caller
\* has run, the same call by the same caller returns Ok again and leaves
\* the ledger exactly as the first call left it.
C12_ApproveIdempotent ==
    call.op = "approve" =>
        LET again == approve(Self, call.caller, call.to, call.value)
        IN  /\ again.res = call.result
            /\ ~again.st.panicked
            /\ again.st.total_supply = total_supply
            /\ again.st.balances = balances
            /\ again.st.approval = approval
            /\ again.st.owner = owner

\* An approve of a positive value that changed the allowance.
C12_Witness ==
    /\ call.op = "approve"
    /\ call.value > 0
    /\ Pre.approval[<<call.caller, call.to>>] > 0
    /\ Pre.approval[<<call.caller, call.to>>] # call.value

\* C13: construction with any initial_supply succeeds and yields
\* total_supply = initial_supply, the constructing caller's balance =
\* initial_supply, every other balance and every allowance zero, owner =
\* the constructing caller, and exactly one notification
\* Transfer{None, Some(caller), initial_supply}.
C13_Construction ==
    call.op = "new" =>
        /\ call.result = "Ok"
        /\ total_supply = call.value
        /\ balances[call.caller] = call.value
        /\ \A who \in AccountId \ {call.caller} : balances[who] = 0
        /\ \A key \in AccountId \X AccountId : approval[key] = 0
        /\ owner = call.caller
        /\ emitted = <<TransferEvent(None, call.caller, call.value)>>

\* A ledger just constructed with a positive initial supply.
C13_Witness == call.op = "new" /\ call.value > 0

\* C14: a mint by owner that would take total_supply (or the owner's
\* balance) above the largest Balance does not wrap: it ends with an
\* outcome that is neither Ok nor one of the three errors, and the ledger
\* is unchanged.
C14_MintOverflowReported ==
    (/\ call.op = "mint"
     /\ call.caller = Pre.owner
     /\ \/ Pre.total_supply + call.value > MaxBalance
        \/ Pre.balances[call.caller] + call.value > MaxBalance)
    => /\ call.result \notin Errors \cup {"Ok"}
       /\ Storage = Pre

\* C15: each successful state-changing call emits exactly one notification
\* of its shape: transfer Transfer{Some(caller), Some(to), value},
\* transfer_from Transfer{Some(from), Some(to), value}, mint
\* Transfer{None, Some(caller), value}, burn Transfer{Some(caller), None,
\* value}, approve Approval{caller, spender, value} carrying the new
\* allowance; a Transfer with from = None comes only from construction or
\* a successful mint, one with to = None only from a successful burn.
C15_Notifications ==
    /\ (call.op = "transfer" /\ call.result = "Ok")
          => emitted = <<TransferEvent(call.caller, call.to, call.value)>>
    /\ (call.op = "transfer_from" /\ call.result = "Ok")
          => emitted = <<TransferEvent(call.from, call.to, call.value)>>
    /\ (call.op = "mint" /\ call.result = "Ok")
          => emitted = <<TransferEvent(None, call.caller, call.value)>>
    /\ (call.op = "burn" /\ call.result = "Ok")
          => emitted = <<TransferEvent(call.caller, None, call.value)>>
    /\ (call.op = "approve" /\ call.result = "Ok")
          => /\ emitted
                  = <<ApprovalEvent(call.caller, call.to, call.value)>>
             /\ emitted[1].value = approval[<<call.caller, call.to>>]
    /\ \A i \in 1 .. Len(emitted) :
          emitted[i].kind = "Transfer" =>
             /\ emitted[i].from = None
                   => (call.op \in {"new", "mint"} /\ call.result = "Ok")
             /\ emitted[i].to = None
                   => (call.op = "burn" /\ call.result = "Ok")

\* The owner has burnt a positive value.
C15_Witness ==
    /\ call.op = "burn"
    /\ call.result = "Ok"
    /\ call.value > 0
    /\ Len(emitted) = 1

\* C16: a self-transfer, transfer(to = caller, value) with the caller's
\* balance >= value, returns Ok, leaves the caller's balance and all the
\* rest of the state as before, and emits
\* Transfer{Some(caller), Some(caller), value}.
C16_SelfTransfer ==
    (/\ call.op = "transfer"
     /\ call.to = call.caller
     /\ Pre.balances[call.caller] >= call.value)
    => /\ call.result = "Ok"
       /\ Storage = Pre
       /\ emitted = <<TransferEvent(call.caller, call.caller, call.value)>>

\* An account has transferred a positive value to itself.
C16_Witness ==
    /\ call.op = "transfer"
    /\ call.to = call.caller
    /\ call.result = "Ok"
    /\ call.value > 0

\* C17: debits are authorized: when a message leaves the balance of an
\* identity Y lower than it was, the message is a transfer by Y, a burn by
\* Y = owner, or a transfer_from(from = Y) by a caller whose allowance
\* (Y, caller) before the call was at least the amount debited.
C17_DebitsAuthorized ==
    call.op \notin {"new", "none"} =>
        \A Y \in AccountId :
            balances[Y] < Pre.balances[Y] =>
                \/ call.op = "transfer" /\ call.caller = Y
                \/ call.op = "burn" /\ call.caller = Y /\ Y = Pre.owner
                \/ /\ call.op = "transfer_from"
                   /\ call.from = Y
                   /\ Pre.approval[<<Y, call.caller>>]
                         >= Pre.balances[Y] - balances[Y]

\* C18: delegated spending is bounded by the approval: for every owner O
\* and spender S, the values of S's successful transfer_from(O, ..) calls
\* since O's most recent approve(S, a) add up to at most a, allowance(O, S)
\* is a minus that sum, and only O's approve(S, ..) raises allowance(O, S).
C18_SpendingBounded ==
    /\ \A key \in AccountId \X AccountId :
          /\ unspent[key] >= 0
          /\ approval[key] = unspent[key]
    /\ call.op \notin {"new", "none"} =>
          \A key \in AccountId \X AccountId :
              approval[key] > Pre.approval[key] =>
                  /\ call.op = "approve"
                  /\ call.caller = key[1]
                  /\ call.to = key[2]

\* A spender has spent part of an allowance: a successful transfer_from of
\* a positive value by an account other than from that leaves a positive
\* allowance.
C18_Witness ==
    /\ call.op = "transfer_from"
    /\ call.result = "Ok"
    /\ call.caller # call.from
    /\ call.value > 0
    /\ approval[<<call.from, call.caller>>] > 0

\* C19: the emitted Transfers are a complete record: for every identity X
\* balance_of(X) is the sum of the values of the Transfers with
\* to = Some(X) minus the sum of those with from = Some(X), total_supply is
\* the sum of those with from = None minus the sum of those with
\* to = None, and a failing call emits nothing.
C19_EventsRecordBalances ==
    /\ \A X \in AccountId : balances[X] = booked[X]
    /\ total_supply = issued
    /\ (call.op \notin {"new", "none"} /\ call.result \in Errors)
          => emitted = <<>>

\* C20: every balance is at most total_supply; so the credit
\* to_balance + value of _transfer stays in the range when it is reached
\* from transfer or transfer_from, and in mint the credit leaves the range
\* only if the increment of total_supply before it does.
C20_BalancesWithinSupply ==
    /\ \A X \in AccountId : balances[X] <= total_supply
    /\ (call.op \in {"transfer", "transfer_from"} /\ Applied) =>
          LET to_balance ==
                  IF call.to = call.from
                  THEN Pre.balances[call.to] - call.value
                  ELSE Pre.balances[call.to]
          IN  to_balance + call.value <= MaxBalance
    /\ (/\ call.op = "mint"
        /\ call.caller = Pre.owner
        /\ Pre.balances[call.caller] + call.value > MaxBalance)
          => Pre.total_supply + call.value > MaxBalance

====
